---- MODULE Spec2Model ----
(***************************************************************************)
(* pyQCD: Wilson-Dirac / smearing operator assembly, propagator assembly   *)
(* and the Krylov solvers (cg, bicgstab, gmres, arnoldi).                  *)
(*                                                                         *)
(* Numbers.  A vector that only the solvers see is kept by its squared     *)
(* 2-norm, a natural number, or NaN once a division by zero has reached    *)
(* it.  A tolerance or residual (a double, the square root of a ratio of   *)
(* squared norms) is kept as the ratio [num, den] under the root: the root *)
(* is monotone, so "<" on the doubles is "<" on the ratios.                *)
(***************************************************************************)
EXTENDS Integers, Naturals, Sequences, FiniteSets, TLC

(* ------------------------------ bounds --------------------------------- *)
MaxIter == 3
MaxNorm == 2
MaxArnoldi == 2
temporalExtent == 2
MaxSmears == 1
MaxSize == 2
MaxThreads == 2
MaxCandidates == 3
MaxRhs == 3

(* ------------------------- program constants --------------------------- *)
restartFrequency == 20
precondition == 1
NaN == -1
spatialExtent == 1

VARIABLES
  \* --- solvers.cpp: one call of cg, bicgstab or gmres
  solver,         \* which function is running
  spc,            \* position: "call", "loop", "break", "done"
  maxIterations,  \* int& maxIterations (in/out)
  tolerance,      \* double& tolerance (in/out), as a ratio under the root
  i,              \* loop index
  rSq,            \* squared norm of the vector r as it now stands
  oldRes,         \* cg: double oldRes
  residual,       \* bicgstab: double residual
  rNorm,          \* gmres: double rNorm (squared)
  r0Norm,         \* bicgstab, gmres: double r0Norm (squared)
  rho,            \* bicgstab: complex rho: 0, 1 (any non-zero value) or NaN
  ops,            \* the operator applications made so far, in order
  M0,             \* history: maxIterations as passed in
  tol0,           \* history: tolerance as passed in
  iters,          \* history: loop bodies entered
  outcome,        \* history: "none", "converged", "exhausted", "breakdown"
  rhsSize,        \* rhs.size()
  cgLengths,      \* cg: the sizes of rhsHermitian, rhsOdd, oddSolution, r, p
  cgSolution,     \* cg: VectorXcd solution, its two halves as terms
  cgWrites,       \* cg, history: the assignments to parts of solution
  cgResult,       \* cg: the vector returned
  \* --- solvers.cpp: one call of arnoldi
  apc,            \* position: "call", "loop", "done"
  numIterations,  \* const int numIterations
  ai,             \* loop index i of arnoldi
  V,              \* MatrixXcd V: column c is "zero", "unit" or "nan"
  H,              \* MatrixXcd H: H[r][c]
  applied,        \* columns of V the operator was applied to, in order
  zeroAt,         \* history: the first step whose norm was zero (0: none)
  shape,          \* rhs.size() and the rows and columns of V and of H
  written,        \* history: the places (row, column) of H assigned to
  \* --- the Lattice object and one call of a member function of it
  links_,                  \* GaugeField links_
  propagatorColumns_,      \* the neighbour table
  lpc,                     \* position in the member function that is running
  args,                    \* the arguments of the call
  tripletList,             \* vector<Tlet> tripletList
  visited,                 \* history: the sites handled, each with its triplets
  out,                     \* computeSmearingOperator: out
  matrixH,                 \* computeSmearingOperator: matrixH
  matrixHPower,            \* computeSmearingOperator: matrixHPower
  li,                      \* computeSmearingOperator: loop index i
  hAssembled,              \* history: lines 92-155 have run
  templinks,               \* computePropagator: GaugeField templinks
  stime,                   \* computePropagator: loop index time
  D,                       \* computePropagator: the Dirac matrix D
  Dadj,                    \* computePropagator: Dadj
  M,                       \* computePropagator: M = D * Dadj
  eigenSolver,             \* computePropagator: the Eigen solver object
  sourceSmearingOperator,  \* computePropagator: sourceSmearingOperator
  sinkSmearingOperator,    \* computePropagator: sinkSmearingOperator
  propagator,              \* computePropagator: vector<MatrixXcd> propagator
  pcol,                    \* computePropagator: loops i, j as pass 3 * i + j
  linksAtCall,             \* history: links_ when computePropagator was called
  smearedLinks,            \* history: links_ when D was computed
  linkWrites,              \* history: assignments to links_ during the call
  solves,                  \* history: one record per pass of the solve loop
  columnWrites,            \* history: writes to each column of each site matrix
  \* --- array.hpp, array_expr.hpp: one operation on an Array
  arrayCall,               \* the operation: [kind, op]
  arrayPc,                 \* position in it
  data_,                   \* Array::data_ of the target (the lhs of a binary)
  operand,                 \* the other operand: an Array or an expression
  arrayI,                  \* loop index i
  elementReads,            \* history: elements of either operand read
  elementWrites,           \* history: elements of data_ written
  dataAtCall,              \* history: data_ when the operation was called
  expression,              \* the ArrayBinary object constructed, if any
  \* --- part_000: the threads of an omp parallel for over the sites
  builder,                 \* which loop runs: "dirac", "smearing" or "none"
  threadPc,                \* position of each thread
  threadSite,              \* the loop index i each thread holds
  threadPos,               \* how many candidates of its site a thread has done
  threadSum,               \* each thread's own row, column and sum
  threadEnd,               \* the end of tripletList a thread's push_back read
  criticalOwner,           \* the thread inside the critical construct, or 0
  unclaimed                \* the iterations not yet handed to a thread

solverVars == <<solver, spc, maxIterations, tolerance, i, rSq, oldRes, residual,
                rNorm, r0Norm, rho, ops, M0, tol0, iters, outcome, rhsSize,
                cgLengths, cgSolution, cgWrites, cgResult>>
cgFrame == <<cgLengths, cgSolution, cgWrites, cgResult>>
arnoldiVars == <<apc, numIterations, ai, V, H, applied, zeroAt, shape, written>>
latticeVars == <<links_, propagatorColumns_, lpc, args, tripletList, visited, out,
                 matrixH, matrixHPower, li, hAssembled, templinks, stime, D, Dadj,
                 M, eigenSolver, sourceSmearingOperator, sinkSmearingOperator,
                 propagator, pcol, linksAtCall, smearedLinks, linkWrites, solves,
                 columnWrites>>
arrayVars == <<arrayCall, arrayPc, data_, operand, arrayI, elementReads,
               elementWrites, dataAtCall, expression>>
threadVars == <<builder, threadPc, threadSite, threadPos, threadSum, threadEnd,
                criticalOwner, unclaimed>>
otherVars == <<arrayVars, threadVars>>
vars == <<solverVars, arnoldiVars, latticeVars, otherVars>>

(* ------------------------------ numbers -------------------------------- *)
Norms == 0..MaxNorm
Val == Norms \cup {NaN}

\* The double sqrt(num / den), kept as the ratio under the root.
Ratio(num, den) == [num |-> num, den |-> den]

\* IEEE "<" on two such doubles: false when either side is NaN (num NaN or
\* 0/0) or the left side is infinite (num/0).
RatioLt(x, t) ==
  /\ x.num # NaN /\ t.num # NaN
  /\ x.den > 0 /\ t.den > 0
  /\ x.num * t.den < t.num * x.den

\* The squared norm of a vector computed from one of squared norm n by an
\* update whose coefficients may hold a division by zero.
Updated(n) == IF n = NaN THEN {NaN} ELSE Val

Repeat(x, k) == [n \in 1..k |-> x]

SolverIdle ==
  /\ solver = "none" /\ spc = "idle" /\ maxIterations = 0
  /\ tolerance = Ratio(0, 1) /\ i = 0 /\ rSq = 0 /\ oldRes = 0
  /\ residual = 0 /\ rNorm = 0 /\ r0Norm = 0 /\ rho = 1 /\ ops = <<>>
  /\ M0 = 0 /\ tol0 = Ratio(0, 1) /\ iters = 0 /\ outcome = "none"
  /\ rhsSize = 0 /\ cgLengths = <<>> /\ cgSolution = <<>> /\ cgWrites = <<>>
  /\ cgResult = <<>>

ArnoldiIdle ==
  /\ apc = "idle" /\ numIterations = 0 /\ ai = 0 /\ V = <<>> /\ H = <<>>
  /\ applied = <<>> /\ zeroAt = 0 /\ shape = <<>> /\ written = {}

\* The locals and the history of a member function of Lattice, before a call.
LocalsIdle ==
  /\ args = <<>> /\ tripletList = <<>> /\ visited = <<>> /\ out = <<>>
  /\ matrixH = <<>> /\ matrixHPower = <<>> /\ li = 0 /\ hAssembled = FALSE
  /\ templinks = <<>> /\ stime = 0 /\ D = <<>> /\ Dadj = <<>> /\ M = <<>>
  /\ eigenSolver = <<>> /\ sourceSmearingOperator = <<>>
  /\ sinkSmearingOperator = <<>> /\ propagator = <<>> /\ pcol = 0
  /\ linksAtCall = <<>> /\ smearedLinks = <<>> /\ linkWrites = 0
  /\ solves = <<>> /\ columnWrites = <<>>

LatticeIdle ==
  /\ lpc = "idle" /\ links_ = <<>> /\ propagatorColumns_ = <<>>
  /\ LocalsIdle

ArrayIdle ==
  /\ arrayCall = <<>> /\ arrayPc = "idle" /\ data_ = <<>> /\ operand = <<>>
  /\ arrayI = 0 /\ elementReads = 0 /\ elementWrites = 0 /\ dataAtCall = <<>>
  /\ expression = <<>>

ThreadIdle ==
  /\ builder = "none"
  /\ threadPc = [t \in 1..MaxThreads |-> "idle"]
  /\ threadSite = [t \in 1..MaxThreads |-> -1]
  /\ threadPos = [t \in 1..MaxThreads |-> 0]
  /\ threadSum = [t \in 1..MaxThreads |-> <<>>]
  /\ threadEnd = [t \in 1..MaxThreads |-> 0]
  /\ criticalOwner = 0
  /\ unclaimed = {}
OthersIdle == ArrayIdle /\ ThreadIdle

(* ============================ solvers.cpp ============================== *)

\* A caller's arguments: maxIterations, tolerance, and which solver.
SolverInit ==
  /\ solver \in {"cg", "bicgstab", "gmres"}
  /\ spc = "call"
  /\ maxIterations \in 0..MaxIter
  /\ tolerance \in {Ratio(t, 1) : t \in 1..MaxNorm}
  /\ i = 0 /\ rSq = 0 /\ oldRes = 0 /\ residual = 0 /\ rNorm = 0 /\ r0Norm = 0
  /\ rho = 1 /\ ops = <<>>
  /\ M0 = maxIterations /\ tol0 = tolerance /\ iters = 0 /\ outcome = "none"
  /\ rhsSize \in 0..MaxRhs
  /\ cgLengths = <<>> /\ cgSolution = <<>> /\ cgWrites = <<>> /\ cgResult = <<>>
  /\ ArnoldiIdle
  /\ LatticeIdle
  /\ OthersIdle

(* --------------------------------- cg ---------------------------------- *)
\* Mutant of HalfSize: the whole size.
HalfSizeWhole(size) == size

\* int N = rhs.size() / 2, line 38.
HalfSize(size) == size \div 2

\* The size of what a member function of LinearOperator returns for an
\* argument of the given size (makeEvenOddSource, makeHermitian,
\* applyEvenEvenInv, applyPreconditionedHermitian, applyHermitian), and of a
\* sum or difference of two vectors of that size.
SameSize(size) == size

\* cg, lines 36-65: the even-odd set-up and the first residual.
cgEnter ==
  /\ solver = "cg" /\ spc = "call"
  /\ \E n \in Norms :
       /\ rSq' = n
       /\ oldRes' = n
  /\ ops' = IF precondition = 1
              THEN <<"makeEvenOddSource", "makeHermitian", "applyEvenEvenInv",
                     "applyPreconditionedHermitian">>
              ELSE <<"makeHermitian", "applyHermitian">>
  /\ LET N == HalfSize(rhsSize)
     IN IF precondition = 1
          THEN /\ cgLengths' = [rhsHermitian |-> SameSize(rhsSize),
                                rhsOdd |-> SameSize(N), oddSolution |-> N,
                                r |-> SameSize(N), p |-> SameSize(N)]
               /\ cgSolution' = [size |-> rhsSize,
                                 head |-> <<"applyEvenEvenInv", "head",
                                            "makeEvenOddSource", "rhs">>,
                                 headLen |-> N,
                                 tail |-> <<"Zero">>, tailLen |-> N]
               /\ cgWrites' = <<[part |-> "head", at |-> "setup"]>>
          ELSE /\ cgLengths' = [rhsHermitian |-> SameSize(rhsSize), rhsOdd |-> 0,
                                oddSolution |-> 0, r |-> SameSize(rhsSize),
                                p |-> SameSize(rhsSize)]
               /\ cgSolution' = [size |-> rhsSize, head |-> <<"Zero">>,
                                 headLen |-> N, tail |-> <<"Zero">>, tailLen |-> N]
               /\ cgWrites' = <<>>
  /\ UNCHANGED cgResult
  /\ i' = 0
  /\ spc' = "loop"
  /\ UNCHANGED <<solver, maxIterations, tolerance, residual, rNorm, r0Norm, rho,
                 M0, tol0, iters, outcome>>
  /\ UNCHANGED <<rhsSize, arnoldiVars, latticeVars, otherVars>>

\* Mutant of cgConvergedCount: the break writes the index, not the count.
cgConvergedCountStale(k) == k

\* The iteration count cg writes when it detects convergence at index k.
cgConvergedCount(k) == k + 1

\* cg, lines 67-90: one pass of the loop body.
cgIterate ==
  /\ solver = "cg" /\ spc = "loop" /\ i < maxIterations
  /\ iters' = iters + 1
  /\ ops' = Append(ops, IF precondition = 1 THEN "applyPreconditionedHermitian"
                         ELSE "applyHermitian")
  /\ cgWrites' = IF precondition = 1 THEN cgWrites
                 ELSE Append(cgWrites, [part |-> "all", at |-> "loop"])
  /\ UNCHANGED <<cgLengths, cgSolution, cgResult>>
  /\ \E newRes \in Updated(rSq) :
       /\ rSq' = newRes
       /\ oldRes' = newRes
       /\ IF RatioLt(Ratio(newRes, 1), tolerance)
            THEN /\ maxIterations' = cgConvergedCount(i)
                 /\ spc' = "break"
                 /\ outcome' = "converged"
                 /\ i' = i
            ELSE /\ i' = i + 1
                 /\ UNCHANGED <<maxIterations, spc, outcome>>
  /\ UNCHANGED <<solver, tolerance, residual, rNorm, r0Norm, rho, M0, tol0>>
  /\ UNCHANGED <<rhsSize, arnoldiVars, latticeVars, otherVars>>

\* Mutant of cgFinalTolerance: tolerance is left as it was passed in.
cgFinalToleranceKept == tolerance

\* The value cg writes to tolerance, line 92.
cgFinalTolerance == Ratio(oldRes, 1)

\* cg, lines 92-103: leaving the loop (by break or i = maxIterations).
cgReturn ==
  /\ solver = "cg"
  /\ \/ spc = "break"
     \/ spc = "loop" /\ i >= maxIterations
  /\ tolerance' = cgFinalTolerance
  /\ outcome' = IF spc = "break" THEN outcome ELSE "exhausted"
  /\ ops' = Append(ops, "makeEvenOddSolution")
  /\ LET combined == IF precondition = 1
                       THEN [cgSolution EXCEPT !.tail = <<"oddSolution">>,
                                               !.tailLen = cgLengths.oddSolution]
                       ELSE cgSolution
     IN /\ cgSolution' = combined
        /\ cgResult' = [fn |-> "makeEvenOddSolution", arg |-> combined]
  /\ cgWrites' = IF precondition = 1
                   THEN Append(cgWrites, [part |-> "tail", at |-> "after"])
                   ELSE cgWrites
  /\ UNCHANGED cgLengths
  /\ spc' = "done"
  /\ UNCHANGED <<solver, maxIterations, i, rSq, oldRes, residual, rNorm, r0Norm,
                 rho, M0, tol0, iters>>
  /\ UNCHANGED <<rhsSize, arnoldiVars, latticeVars, otherVars>>

(* ------------------------------ bicgstab ------------------------------- *)
\* bicgstab, lines 113-133.
bicgstabEnter ==
  /\ solver = "bicgstab" /\ spc = "call"
  /\ \E n \in Norms :
       /\ rSq' = n
       /\ r0Norm' = n
       /\ residual' = n
  /\ rho' = 1
  /\ ops' = <<"apply">>
  /\ i' = 0
  /\ spc' = "loop"
  /\ UNCHANGED <<solver, maxIterations, tolerance, oldRes, rNorm, M0, tol0, iters,
                 outcome>>
  /\ UNCHANGED <<rhsSize, cgFrame, arnoldiVars, latticeVars, otherVars>>

\* rho = r0.dot(r), line 138: r0 = r in the first pass, so rho is r0Norm;
\* later it is 0 for r = 0 and otherwise whatever the two vectors give.
RhoValues ==
  IF rSq = NaN THEN {NaN}
  ELSE IF rSq = 0 THEN {0}
  ELSE IF i = 0 THEN {1}
  ELSE {0, 1}

\* The iteration count bicgstab writes on breakdown at index k, line 141.
bicgstabBreakdownCount(k) == k

\* The squared norm bicgstab keeps in residual in a pass, line 157, where
\* before is r entering the pass and after is r as line 159 leaves it.
bicgstabResidual(before, after) == before

\* bicgstab, lines 135-164: one pass of the loop body.
bicgstabIterate ==
  /\ solver = "bicgstab" /\ spc = "loop" /\ i < maxIterations
  /\ iters' = iters + 1
  /\ \E newRho \in RhoValues :
       /\ rho' = newRho
       /\ IF newRho = 0
            THEN /\ maxIterations' = bicgstabBreakdownCount(i)
                 /\ tolerance' = Ratio(residual, r0Norm)
                 /\ spc' = "break"
                 /\ outcome' = "breakdown"
                 /\ UNCHANGED <<i, rSq, residual, ops>>
            ELSE /\ ops' = ops \o <<"apply", "apply">>
                 /\ \E newR \in Updated(rSq) :
                      /\ residual' = bicgstabResidual(rSq, newR)
                      /\ rSq' = newR
                      /\ IF RatioLt(Ratio(residual', r0Norm), tolerance)
                           THEN /\ maxIterations' = i + 1
                                /\ spc' = "break"
                                /\ outcome' = "converged"
                                /\ i' = i
                           ELSE /\ i' = i + 1
                                /\ UNCHANGED <<maxIterations, spc, outcome>>
                 /\ UNCHANGED tolerance
  /\ UNCHANGED <<solver, oldRes, rNorm, r0Norm, M0, tol0>>
  /\ UNCHANGED <<rhsSize, cgFrame, arnoldiVars, latticeVars, otherVars>>

\* bicgstab, lines 167-175.
bicgstabReturn ==
  /\ solver = "bicgstab"
  /\ \/ spc = "break"
     \/ spc = "loop" /\ i >= maxIterations
  /\ tolerance' = Ratio(residual, r0Norm)
  /\ outcome' = IF spc = "break" THEN outcome ELSE "exhausted"
  /\ spc' = "done"
  /\ UNCHANGED <<solver, maxIterations, i, rSq, oldRes, residual, rNorm, r0Norm,
                 rho, ops, M0, tol0, iters>>
  /\ UNCHANGED <<rhsSize, cgFrame, arnoldiVars, latticeVars, otherVars>>

(* -------------------------------- gmres -------------------------------- *)
\* gmres, lines 183-193.
gmresEnter ==
  /\ solver = "gmres" /\ spc = "call"
  /\ \E n \in Norms :
       /\ rSq' = n
       /\ rNorm' = n
       /\ r0Norm' = n
  /\ ops' = <<"apply">>
  /\ i' = 0
  /\ spc' = "loop"
  /\ UNCHANGED <<solver, maxIterations, tolerance, oldRes, residual, rho, M0, tol0,
                 iters, outcome>>
  /\ UNCHANGED <<rhsSize, cgFrame, arnoldiVars, latticeVars, otherVars>>

\* The iteration count gmres writes when it detects convergence at index k.
gmresConvergedCount(k) == k + 1

\* gmres, lines 195-213: one restart cycle.  arnoldi started from r = 0
\* divides r by its zero norm, and every later number of the cycle is NaN.
gmresIterate ==
  /\ solver = "gmres" /\ spc = "loop" /\ i < maxIterations
  /\ iters' = iters + 1
  /\ ops' = ops \o Repeat("apply", restartFrequency) \o <<"apply">>
  /\ \E newR \in (IF rSq = 0 THEN {NaN} ELSE Updated(rSq)) :
       /\ rSq' = newR
       /\ rNorm' = newR
       /\ IF RatioLt(Ratio(newR, r0Norm), tolerance)
            THEN /\ maxIterations' = gmresConvergedCount(i)
                 /\ spc' = "break"
                 /\ outcome' = "converged"
                 /\ i' = i
            ELSE /\ i' = i + 1
                 /\ UNCHANGED <<maxIterations, spc, outcome>>
  /\ UNCHANGED <<solver, tolerance, oldRes, residual, r0Norm, rho, M0, tol0>>
  /\ UNCHANGED <<rhsSize, cgFrame, arnoldiVars, latticeVars, otherVars>>

\* gmres, lines 214-222.
gmresReturn ==
  /\ solver = "gmres"
  /\ \/ spc = "break"
     \/ spc = "loop" /\ i >= maxIterations
  /\ tolerance' = Ratio(rNorm, r0Norm)
  /\ outcome' = IF spc = "break" THEN outcome ELSE "exhausted"
  /\ spc' = "done"
  /\ UNCHANGED <<solver, maxIterations, i, rSq, oldRes, residual, rNorm, r0Norm,
                 rho, ops, M0, tol0, iters>>
  /\ UNCHANGED <<rhsSize, cgFrame, arnoldiVars, latticeVars, otherVars>>

SolverNext ==
  \/ cgEnter \/ cgIterate \/ cgReturn
  \/ bicgstabEnter \/ bicgstabIterate \/ bicgstabReturn
  \/ gmresEnter \/ gmresIterate \/ gmresReturn

SpecSolvers == SolverInit /\ [][SolverNext]_vars

(* ------------------------------- arnoldi ------------------------------- *)
\* A caller's argument numIterations; V and H are the caller's, not yet set.
ArnoldiInit ==
  /\ apc = "call"
  /\ numIterations \in 0..MaxArnoldi
  /\ ai = 0 /\ V = <<>> /\ H = <<>> /\ applied = <<>> /\ zeroAt = 0
  /\ shape = <<>> /\ written = {}
  /\ SolverIdle
  /\ LatticeIdle
  /\ OthersIdle

\* The values an inner product q.dot(V.col(j)) is drawn from.
DotValues == {0, 1}

\* x / n for a vector x and a double n, as a column of V: 0/0 is NaN in
\* every entry.
Normalised(n) == IF n = NaN \/ n = 0 THEN "nan" ELSE "unit"

\* arnoldi, lines 9-13.
arnoldiEnter ==
  /\ apc = "call"
  /\ \E beta \in Norms :
       V' = [c \in 0..numIterations |->
               IF c = 0 THEN Normalised(beta) ELSE "zero"]
  /\ H' = [r \in 0..numIterations |-> [c \in 0..(numIterations - 1) |-> 0]]
  /\ \E size \in 1..MaxRhs :
       shape' = [rhs |-> size, Vrows |-> size, Vcols |-> numIterations + 1,
                 Hrows |-> numIterations + 1, Hcols |-> numIterations]
  /\ ai' = 1
  /\ apc' = "loop"
  /\ UNCHANGED <<numIterations, applied, zeroAt, written>>
  /\ UNCHANGED <<solverVars, latticeVars, otherVars>>

\* Whether arnoldi goes on to another step after step k gave the norm n.
arnoldiContinues(k, n) == TRUE

\* Mutant of ArnoldiOperand: the column being filled.
ArnoldiOperandSame(k) == k

\* The column of V the operator is applied to in pass i = k, line 16.
ArnoldiOperand(k) == k - 1

\* arnoldi, lines 15-27: one pass of the loop body, for i = ai.
arnoldiStep ==
  /\ apc = "loop" /\ ai < numIterations + 1
  /\ applied' = Append(applied, ArnoldiOperand(ai))
  /\ written' = written \cup {<<r, ai - 1>> : r \in 0..ai}
  /\ \E dots \in [0..(ai - 1) -> DotValues], norm \in Norms :
       LET bad == V[ai - 1] = "nan"
           h == IF bad THEN NaN ELSE norm
       IN /\ H' = [r \in 0..numIterations |->
                     [c \in 0..(numIterations - 1) |->
                        IF c # ai - 1 THEN H[r][c]
                        ELSE IF r < ai THEN (IF bad THEN NaN ELSE dots[r])
                        ELSE IF r = ai THEN h
                        ELSE H[r][c]]]
          /\ V' = [V EXCEPT ![ai] = Normalised(h)]
          /\ zeroAt' = IF zeroAt = 0 /\ h = 0 THEN ai ELSE zeroAt
          /\ IF arnoldiContinues(ai, h)
               THEN ai' = ai + 1 /\ apc' = apc
               ELSE ai' = ai /\ apc' = "done"
  /\ UNCHANGED <<numIterations, shape>>
  /\ UNCHANGED <<solverVars, latticeVars, otherVars>>

\* arnoldi, line 28: the loop has run out.
arnoldiReturn ==
  /\ apc = "loop" /\ ai >= numIterations + 1
  /\ apc' = "done"
  /\ UNCHANGED <<numIterations, ai, V, H, applied, zeroAt, shape, written>>
  /\ UNCHANGED <<solverVars, latticeVars, otherVars>>

ArnoldiNext == arnoldiEnter \/ arnoldiStep \/ arnoldiReturn

SpecArnoldi == ArnoldiInit /\ [][ArnoldiNext]_vars

(* ============================ the lattice ============================== *)
(* Complex doubles of the lattice code are Gaussian integers <<re, im>>:   *)
(* the link matrices, gamma matrices, masses and smearing parameters the   *)
(* model draws are integral, and the lattice spacing is 1/invSpacing with  *)
(* invSpacing even, so that 4/spacing and 0.5/spacing are integers and     *)
(* every sum and product below is exact.                                   *)

C(re, im) == <<re, im>>
CZero == C(0, 0)
COne == C(1, 0)
CAdd(a, b) == <<a[1] + b[1], a[2] + b[2]>>
CSub(a, b) == <<a[1] - b[1], a[2] - b[2]>>
CMul(a, b) == <<a[1] * b[1] - a[2] * b[2], a[1] * b[2] + a[2] * b[1]>>
CConj(a) == <<a[1], -a[2]>>
CReal(x) == <<x, 0>>

\* The lattice: spatialExtent^3 x temporalExtent sites, 4 links per site.
\* With spatialExtent = 1 a site is its own neighbour in the three spatial
\* directions (the lattice is periodic); its temporal neighbours are other
\* sites.
nSites == spatialExtent * spatialExtent * spatialExtent * temporalExtent
nLinks_ == 4 * nSites
nIndices == 3 * nLinks_
Sites == 0..(nSites - 1)
Links == 0..(nLinks_ - 1)
Idx == 0..(nIndices - 1)

\* pyQCD::getLinkIndex: (t, x, y, z, mu) to the flat link index.
getLinkIndex(n0, n1, n2, n3, n4) ==
  n4 + 4 * (n3 + spatialExtent * (n2 + spatialExtent * (n1 + spatialExtent * n0)))

\* pyQCD::getLinkIndices: the flat link index to link[0..4] = (t, x, y, z, mu).
getLinkIndices(n) ==
  LET s == n \div 4
      L == spatialExtent
  IN [d \in 0..4 |->
        CASE d = 0 -> s \div (L * L * L)
          [] d = 1 -> (s \div (L * L)) % L
          [] d = 2 -> (s \div L) % L
          [] d = 3 -> s % L
          [] d = 4 -> n % 4]

\* Lattice::getLink: the link matrix at link[0..4], periodic in every direction.
getLink(links, link) ==
  links[getLinkIndex(link[0] % temporalExtent, link[1] % spatialExtent,
                     link[2] % spatialExtent, link[3] % spatialExtent,
                     link[4] % 4)]

Id3 == [m \in 0..2 |-> [n \in 0..2 |-> IF m = n THEN COne ELSE CZero]]
\* A second SU(3) matrix, neither real nor Hermitian:
\*   ( 0  i  0 )
\*   ( 0  0 -i )
\*   ( 1  0  0 )
Twist3 == [m \in 0..2 |-> [n \in 0..2 |->
             CASE m = 0 /\ n = 1 -> C(0, 1)
               [] m = 1 /\ n = 2 -> C(0, -1)
               [] m = 2 /\ n = 0 -> COne
               [] OTHER -> CZero]]
\* The values a link matrix takes in the model.
LinkValues == {Id3, Twist3}

\* Matrix3cd::adjoint.
Adjoint3(U) == [m \in 0..2 |-> [n \in 0..2 |-> CConj(U[n][m])]]

\* Gauge fields a lattice starts from: all links the identity (cold), and
\* one with the temporal links of every site and the y links of odd time
\* slices twisted.
ColdField == [l \in Links |-> Id3]
MixedField ==
  [l \in Links |->
     IF l % 4 = 0 \/ (l % 4 = 2 /\ (l \div 4) % 2 = 1) THEN Twist3 ELSE Id3]
GaugeFields == {ColdField, MixedField}

\* pyQCD::gammas, gammas[0] the temporal one (chiral representation).
gammas ==
  LET ci == C(0, 1)
      mi == C(0, -1)
      o == COne
      mo == C(-1, 0)
      z == CZero
      rows(a, b, c, d) == (0 :> a @@ 1 :> b @@ 2 :> c @@ 3 :> d)
  IN rows(rows(rows(z, z, o, z), rows(z, z, z, o), rows(o, z, z, z), rows(z, o, z, z)),
          rows(rows(z, z, z, mi), rows(z, z, mi, z), rows(z, ci, z, z), rows(ci, z, z, z)),
          rows(rows(z, z, z, mo), rows(z, z, o, z), rows(z, o, z, z), rows(mo, z, z, z)),
          rows(rows(z, z, mi, z), rows(z, z, z, ci), rows(ci, z, z, z), rows(z, mi, z, z)))

Identity4 == [k \in 0..3 |-> [l \in 0..3 |-> IF k = l THEN COne ELSE CZero]]
Add4(A, B) == [k \in 0..3 |-> [l \in 0..3 |-> CAdd(A[k][l], B[k][l])]]
Sub4(A, B) == [k \in 0..3 |-> [l \in 0..3 |-> CSub(A[k][l], B[k][l])]]

\* The neighbour of site s with direction code c: codes 0..3 are one step
\* back in direction c, codes 4..7 one step forward in direction c - 4.  The
\* table holds the neighbour by the index of its link 0.
NeighbourColumn(s, c) ==
  LET here == getLinkIndices(4 * s)
      d == c % 4
      step == IF c > 3 THEN 1 ELSE -1
      ext(k) == IF k = 0 THEN temporalExtent ELSE spatialExtent
      at(k) == IF k = d THEN (here[k] + step) % ext(k) ELSE here[k]
  IN getLinkIndex(at(0), at(1), at(2), at(3), 0)

\* Orders in which a site's 8 neighbours are listed.
SpatialFirst == <<1, 2, 3, 5, 6, 7, 0, 4>>
ByCode == <<0, 1, 2, 3, 4, 5, 6, 7>>
BackwardFirst == <<1, 2, 3, 4, 5, 6, 7, 0>>
NeighbourOrders == {SpatialFirst, ByCode, BackwardFirst}

\* Lattice::propagatorColumns_[s][j] = {neighbour's link index, code}.
NeighbourTable(order) ==
  [s \in Sites |-> [j \in 0..7 |->
     (0 :> NeighbourColumn(s, order[j + 1]) @@ 1 :> order[j + 1])]]

(* --------------------------- sparse matrices --------------------------- *)
\* A SparseMatrix<complex<double> > of 3*nLinks_ rows and columns, by value.
ZeroMatrix == [r \in Idx |-> [c \in Idx |-> CZero]]
IdentityMatrix == [r \in Idx |-> [c \in Idx |-> IF r = c THEN COne ELSE CZero]]

\* A matrix or vector by value: the entries of M are computed here, once,
\* and not again at each place that reads one.
Stored(X) == IF X = X THEN X ELSE X

Tlet(row, col, val) == [row |-> row, col |-> col, val |-> val]

RECURSIVE SumColumn(_, _, _)
\* The sum of the values of list[1..k] that lie in column c.
SumColumn(list, c, k) ==
  IF k = 0 THEN CZero
  ELSE IF list[k].col = c THEN CAdd(SumColumn(list, c, k - 1), list[k].val)
  ELSE SumColumn(list, c, k - 1)

\* SparseMatrix::setFromTriplets: entries of the same place are summed.
setFromTriplets(list) ==
  Stored([r \in Idx |->
            LET inRow == SelectSeq(list, LAMBDA e : e.row = r)
            IN [c \in Idx |-> SumColumn(inRow, c, Len(inRow))]])

RECURSIVE CSum(_, _)
CSum(f, k) == IF k < 0 THEN CZero ELSE CAdd(f[k], CSum(f, k - 1))

RECURSIVE RowDot(_, _, _, _, _)
\* The sum over the first k stored entries nz of a row of A of their
\* products with column c of B.
RowDot(row, nz, B, c, k) ==
  IF k = 0 THEN CZero
  ELSE CAdd(RowDot(row, nz, B, c, k - 1), CMul(row[nz[k]], B[nz[k]][c]))

\* operator* on two sparse matrices, and on a sparse matrix and a vector.
MatMul(A, B) ==
  Stored([r \in Idx |->
            LET nz == SelectSeq([k \in 1..nIndices |-> k - 1],
                                LAMBDA k : A[r][k] # CZero)
            IN [c \in Idx |-> RowDot(A[r], nz, B, c, Len(nz))]])
MatVec(A, x) ==
  Stored([r \in Idx |-> CSum([k \in Idx |-> CMul(A[r][k], x[k])], nIndices - 1)])
MatAdd(A, B) == Stored([r \in Idx |-> [c \in Idx |-> CAdd(A[r][c], B[r][c])]])
MatScale(a, A) == Stored([r \in Idx |-> [c \in Idx |-> CMul(a, A[r][c])]])

RECURSIVE Concat(_, _)
\* The concatenation of f[0], f[1], ..., f[k].
Concat(f, k) == IF k < 0 THEN <<>> ELSE Concat(f, k - 1) \o f[k]

\* The loop nest k, m, l, n of the tensor product, flattened: pass q of 144.
SpinRow(q) == (q - 1) \div 36
ColourRow(q) == ((q - 1) \div 12) % 3
SpinCol(q) == ((q - 1) \div 3) % 4
ColourCol(q) == (q - 1) % 3

(* ========================= computeDiracMatrix ========================== *)

\* mass + 4 / spacing, line 17.
DiagonalValue(m, invSp) == CReal(m + 4 * invSp)

\* The diagonal entries, lines 16-18.
DiagonalTriplets(m, invSp) ==
  [k \in 1..(3 * nLinks_) |-> Tlet(k - 1, k - 1, DiagonalValue(m, invSp))]

\* -0.5 / spacing, line 60.
HoppingFactor(invSp) == CReal(-(invSp \div 2))

\* The row and column of the entry (k, m, l, n) of site s and the neighbour
\* whose table entry is columnIndex, lines 64-65.
HoppingRow(s, k, m) == 12 * s + 3 * k + m

\* Mutant of HoppingColumn: the table entry taken for a site index.
HoppingColumnScaled(columnIndex, l, n) == 12 * columnIndex + 3 * l + n
HoppingColumn(columnIndex, l, n) == 3 * columnIndex + 3 * l + n

\* Mutant of RowLinkAfter: line 49 left out.
RowLinkAfterNoRestore(rowLink, code) ==
  IF code > 3 THEN [rowLink EXCEPT ![4] = code - 4]
  ELSE [rowLink EXCEPT ![code] = @ - 1, ![4] = code]

\* rowLink after the branch of lines 38-51 for a neighbour of this code:
\* line 40, or lines 46, 47 and 49.
RowLinkAfter(rowLink, code) ==
  IF code > 3 THEN [rowLink EXCEPT ![4] = code - 4]
  ELSE LET stepped == [rowLink EXCEPT ![code] = @ - 1]
           aimed == [stepped EXCEPT ![4] = code]
       IN [aimed EXCEPT ![code] = @ + 1]

RECURSIVE DiracRowLink(_, _, _)
\* rowLink of site s when pass j of the loop of line 29 begins: lines 23-25,
\* then what the passes before j left.
DiracRowLink(cols, s, j) ==
  IF j = 0 THEN getLinkIndices(4 * s)
  ELSE RowLinkAfter(DiracRowLink(cols, s, j - 1), cols[s][j - 1][1])

\* The colour and spin matrices of neighbour j of site s, lines 31-51.
DiracColourMatrix(links, cols, s, j) ==
  LET rowLink == DiracRowLink(cols, s, j)
      code == cols[s][j][1]
  IN IF code > 3
       THEN getLink(links, [rowLink EXCEPT ![4] = code - 4])
       ELSE Adjoint3(getLink(links, [rowLink EXCEPT ![code] = @ - 1, ![4] = code]))
DiracSpinMatrix(cols, s, j) ==
  LET code == cols[s][j][1]
  IN IF code > 3 THEN Add4(Identity4, gammas[code - 4])
                 ELSE Sub4(Identity4, gammas[code])

\* The triplets neighbour j of site s adds, lines 29-69, in loop order.
DiracNeighbourTriplets(links, cols, invSp, s, j) ==
  LET colourMatrix == DiracColourMatrix(links, cols, s, j)
      spinMatrix == DiracSpinMatrix(cols, s, j)
      entry(q) ==
        Tlet(HoppingRow(s, SpinRow(q), ColourRow(q)),
             HoppingColumn(cols[s][j][0], SpinCol(q), ColourCol(q)),
             CMul(HoppingFactor(invSp),
                  CMul(spinMatrix[SpinRow(q)][SpinCol(q)],
                       colourMatrix[ColourRow(q)][ColourCol(q)])))
  IN SelectSeq([q \in 1..144 |-> entry(q)], LAMBDA e : e.val # CZero)

\* The triplets site s adds, lines 22-71.
DiracSiteTriplets(links, cols, invSp, s) ==
  Concat([j \in 0..7 |-> DiracNeighbourTriplets(links, cols, invSp, s, j)], 7)

\* The whole of computeDiracMatrix, with the site loop run in order.
DiracTripletList(links, cols, m, invSp) ==
  DiagonalTriplets(m, invSp)
    \o Concat([s \in Sites |-> DiracSiteTriplets(links, cols, invSp, s)], nSites - 1)
computeDiracMatrix(links, cols, m, invSp) ==
  setFromTriplets(DiracTripletList(links, cols, m, invSp))

(* ------------------- computeDiracMatrix, step by step ------------------ *)
\* A constructed lattice, no member function running yet.
LatticeInit ==
  /\ SolverIdle /\ ArnoldiIdle /\ OthersIdle
  /\ lpc = "ready"
  /\ links_ \in GaugeFields
  /\ propagatorColumns_ \in {NeighbourTable(o) : o \in NeighbourOrders}
  /\ LocalsIdle

\* What a call of one member function leaves alone of the others' locals.
smearingLocals == <<out, matrixH, matrixHPower, li, hAssembled>>
propagatorLocals == <<templinks, stime, Dadj, M, eigenSolver, sourceSmearingOperator,
                      sinkSmearingOperator, propagator, pcol, linksAtCall,
                      smearedLinks, linkWrites, solves, columnWrites>>

\* The masses and inverse spacings computeDiracMatrix is called with.
Masses == {0, 1}
InvSpacings == {2, 4}

\* computeDiracMatrix(mass, spacing) is called, lines 4-11.
diracCall(m, invSp) ==
  /\ lpc = "ready"
  /\ args' = [mass |-> m, invSpacing |-> invSp]
  /\ tripletList' = <<>>
  /\ lpc' = "diagonal"
  /\ UNCHANGED <<links_, propagatorColumns_, visited, D>>
  /\ UNCHANGED <<smearingLocals, propagatorLocals, solverVars, arnoldiVars, otherVars>>

\* The loop of lines 16-18.
diracDiagonal ==
  /\ lpc = "diagonal"
  /\ tripletList' = tripletList \o DiagonalTriplets(args.mass, args.invSpacing)
  /\ lpc' = "sites"
  /\ UNCHANGED <<links_, propagatorColumns_, args, visited, D>>
  /\ UNCHANGED <<smearingLocals, propagatorLocals, solverVars, arnoldiVars, otherVars>>

\* One pass of the loop of lines 22-71, an omp parallel for: the sites are
\* taken in any order, each once.
diracSite(s) ==
  /\ lpc = "sites"
  /\ \A n \in DOMAIN visited : visited[n].site # s
  /\ tripletList' =
       tripletList \o DiracSiteTriplets(links_, propagatorColumns_, args.invSpacing, s)
  /\ visited' = Append(visited, [site |-> s, first |-> Len(tripletList) + 1,
                                 last |-> Len(tripletList')])
  /\ UNCHANGED <<links_, propagatorColumns_, lpc, args, D>>
  /\ UNCHANGED <<smearingLocals, propagatorLocals, solverVars, arnoldiVars, otherVars>>

\* Lines 73-76: the matrix is set from the triplets and returned.
diracReturn ==
  /\ lpc = "sites"
  /\ Len(visited) = nSites
  /\ D' = setFromTriplets(tripletList)
  /\ lpc' = "diracDone"
  /\ UNCHANGED <<links_, propagatorColumns_, args, tripletList, visited>>
  /\ UNCHANGED <<smearingLocals, propagatorLocals, solverVars, arnoldiVars, otherVars>>

DiracNext ==
  \/ \E m \in Masses, invSp \in InvSpacings : diracCall(m, invSp)
  \/ diracDiagonal
  \/ \E s \in Sites : diracSite(s)
  \/ diracReturn

SpecDirac == LatticeInit /\ [][DiracNext]_vars

(* ======================= computeSmearingOperator ======================= *)

\* The neighbours of site s the j loop handles: it is left (break, line
\* 114) at the first neighbour whose code is temporal (0 or 4).
SmearHandled(cols, s) ==
  LET temporal == {j \in 0..7 : cols[s][j][1] = 0 \/ cols[s][j][1] = 4}
      stop == IF temporal = {} THEN 8
              ELSE CHOOSE j \in temporal : \A k \in temporal : j <= k
  IN 0..(stop - 1)

\* The colour matrix of neighbour j of site s, lines 120-131.
SmearColourMatrix(links, cols, s, j) ==
  LET rowLink == getLinkIndices(4 * s)
      code == cols[s][j][1]
  IN IF code > 3
       THEN getLink(links, [rowLink EXCEPT ![4] = code - 4])
       ELSE Adjoint3(getLink(links, [rowLink EXCEPT ![code] = @ - 1, ![4] = code]))

\* The triplets neighbour j of site s adds to H, lines 106-149.
SmearNeighbourTriplets(links, cols, s, j) ==
  LET colourMatrix == SmearColourMatrix(links, cols, s, j)
      spinMatrix == Identity4
      entry(q) ==
        Tlet(12 * s + 3 * SpinRow(q) + ColourRow(q),
             3 * cols[s][j][0] + 3 * SpinCol(q) + ColourCol(q),
             CMul(spinMatrix[SpinRow(q)][SpinCol(q)],
                  colourMatrix[ColourRow(q)][ColourCol(q)]))
  IN IF j \in SmearHandled(cols, s)
       THEN SelectSeq([q \in 1..144 |-> entry(q)], LAMBDA e : e.val # CZero)
       ELSE <<>>

\* The triplets of H, lines 99-150, with the site loop run in order.
SmearTripletList(links, cols) ==
  Concat([s \in Sites |->
            Concat([j \in 0..7 |-> SmearNeighbourTriplets(links, cols, s, j)], 7)],
         nSites - 1)

\* Whether lines 92-155 assemble H.
AssemblesH(n) == n > 0

\* matrixH as lines 89-155 leave it.
SmearMatrixH(links, cols, n) ==
  IF AssemblesH(n) THEN setFromTriplets(SmearTripletList(links, cols))
  ELSE ZeroMatrix

RECURSIVE Pow(_, _)
\* pow(a, k) for an integral a and k >= 0.
Pow(a, k) == IF k = 0 THEN 1 ELSE a * Pow(a, k - 1)

\* out after line 171 of pass k, from out and matrixHPower before it.
SmearTermOut(sum, P, a, k) == MatAdd(sum, MatScale(CReal(Pow(a, k)), P))

\* Mutant of SmearLastPass: the loop runs while i < nSmears.
SmearLastPassShort(n) == n - 1
\* The last pass of the loop of line 170.
SmearLastPass(n) == n

RECURSIVE SmearLoop(_, _, _, _, _, _)
\* The loop of lines 170-174 from pass k on.
SmearLoop(sum, P, Hm, a, n, k) ==
  IF k > SmearLastPass(n) THEN sum
  ELSE SmearLoop(SmearTermOut(sum, P, a, k), MatMul(P, Hm), Hm, a, n, k + 1)

\* The whole of computeSmearingOperator.
computeSmearingOperator(links, cols, a, n) ==
  SmearLoop(ZeroMatrix, IdentityMatrix, SmearMatrixH(links, cols, n), a, n, 0)

(* ----------------- computeSmearingOperator, step by step --------------- *)
diracLocals == <<tripletList, visited, D>>

\* The smearing parameters computeSmearingOperator is called with.
SmearingParameters == {0, 1, 2}

\* computeSmearingOperator(smearingParameter, nSmears) is called, lines 86-89.
smearCall(a, n) ==
  /\ lpc = "ready"
  /\ args' = [smearingParameter |-> a, nSmears |-> n]
  /\ out' = ZeroMatrix
  /\ matrixH' = ZeroMatrix
  /\ lpc' = "assemble"
  /\ UNCHANGED <<links_, propagatorColumns_, matrixHPower, li, hAssembled>>
  /\ UNCHANGED <<diracLocals, propagatorLocals, solverVars, arnoldiVars, otherVars>>

\* Lines 92-167: H is assembled if there is smearing to do, and matrixHPower
\* is set to the identity.
smearAssemble ==
  /\ lpc = "assemble"
  /\ matrixH' = SmearMatrixH(links_, propagatorColumns_, args.nSmears)
  /\ hAssembled' = AssemblesH(args.nSmears)
  /\ matrixHPower' = IdentityMatrix
  /\ li' = 0
  /\ lpc' = "sum"
  /\ UNCHANGED <<links_, propagatorColumns_, args, out>>
  /\ UNCHANGED <<diracLocals, propagatorLocals, solverVars, arnoldiVars, otherVars>>

\* One pass of the loop of lines 170-174.
smearPass ==
  /\ lpc = "sum"
  /\ li <= SmearLastPass(args.nSmears)
  /\ out' = SmearTermOut(out, matrixHPower, args.smearingParameter, li)
  /\ matrixHPower' = MatMul(matrixHPower, matrixH)
  /\ li' = li + 1
  /\ UNCHANGED <<links_, propagatorColumns_, lpc, args, matrixH, hAssembled>>
  /\ UNCHANGED <<diracLocals, propagatorLocals, solverVars, arnoldiVars, otherVars>>

\* Line 176.
smearReturn ==
  /\ lpc = "sum"
  /\ ~(li <= SmearLastPass(args.nSmears))
  /\ lpc' = "smearDone"
  /\ UNCHANGED <<links_, propagatorColumns_, args>>
  /\ UNCHANGED <<smearingLocals, diracLocals, propagatorLocals, solverVars, arnoldiVars, otherVars>>

SmearingNext ==
  \/ \E a \in SmearingParameters, n \in 0..MaxSmears : smearCall(a, n)
  \/ smearAssemble
  \/ smearPass
  \/ smearReturn

SpecSmearing == LatticeInit /\ [][SmearingNext]_vars

(* ============================ computePropagator ========================= *)

\* The product of two 3 x 3 matrices.
Mul3(A, B) ==
  [m \in 0..2 |-> [n \in 0..2 |->
     CSum([k \in 0..2 |-> CMul(A[m][k], B[k][n])], 2)]]

\* Lattice::smearLinks(time, nSmears, smearingParameter): every spatial link
\* of the time slice is overwritten with another SU(3) matrix.
smearLinks(links, t) ==
  [l \in Links |->
     IF getLinkIndices(l)[0] = t /\ l % 4 > 0 THEN Mul3(Twist3, links[l])
     ELSE links[l]]

\* Whether lines 332-337 save and smear the links, and lines 341-342 put
\* them back.
SmearsLinks(n) == n > 0
RestoresLinks(n) == n > 0

\* Mutant of RestoredLinks: the smeared links are left in place.
RestoredLinksKept(saved, current) == current
\* links_ after line 342, from templinks and links_ before it.
RestoredLinks(saved, current) == saved

\* Mutant of SourceIndex: the site offset is not scaled by 3.
SourceIndexFlat(colour, spin, spatial_index) == colour + 3 * spin + spatial_index
\* Line 196: the index of the point source.
SourceIndex(colour, spin, spatial_index) == colour + 3 * (spin + spatial_index)

\* makeSource, lines 181-203.
makeSource(st, spin, colour, smearingOperator) ==
  LET spatial_index == getLinkIndex(st[0], st[1], st[2], st[3], 0)
      index == SourceIndex(colour, spin, spatial_index)
      source == [r \in Idx |-> IF r = index THEN COne ELSE CZero]
  IN MatVec(smearingOperator, source)

\* Lines 243-248: the triplets of the adjoint, D read column by column.
AdjointTriplets(Dm) ==
  LET outer(q) == (q - 1) \div nIndices
      inner(q) == (q - 1) % nIndices
  IN SelectSeq([q \in 1..(nIndices * nIndices) |->
                  Tlet(outer(q), inner(q), CConj(Dm[inner(q)][outer(q)]))],
               LAMBDA e : e.val # CZero)

\* Mutant of UsesConjugateGradient: every non-zero method takes CG.
UsesConjugateGradientNonZero(method) == method # 0
\* Line 237: which branch is taken.
UsesConjugateGradient(method) == method = 1

\* What solve() of an Eigen solver built on matrix A returns for b is an
\* element of the Krylov space of A and b; the solver object fixes which.
KrylovDegrees == {0, 1}
Solve(es, b) == IF es.krylov = 0 THEN b ELSE MatVec(es.matrix, b)

\* Lines 267 and 298: the solution of one (spin, colour) source.
Solution(es, Da, y) ==
  IF es.kind = "ConjugateGradient" THEN MatVec(Da, y) ELSE y

\* Mutant of PropagatorColumn: spin and colour exchanged.
PropagatorColumnSwapped(si, sj) == si + 3 * sj
\* Lines 275 and 306: the column of the site matrices that source (i, j)
\* fills.
PropagatorColumn(si, sj) == sj + 3 * si

\* Lines 273-277 and 304-308.
Scatter(prop, column, x) ==
  [k \in Sites |-> [l \in 0..11 |-> [c \in 0..11 |->
     IF c = column THEN x[12 * k + l] ELSE prop[k][l][c]]]]

\* The sites and argument values computePropagator is called with.
SiteCoordinates == {getLinkIndices(0), getLinkIndices(4 * (nSites - 1))}
LinkSmears == {-1, 0, 1}
SmearCounts == {0, MaxSmears}
SolverMethods == {0, 1, 2}

\* A lattice on which computePropagator is called.
PropagatorInit ==
  /\ LatticeInit
  /\ propagatorColumns_ = NeighbourTable(SpatialFirst)

builderLocals == <<tripletList, visited, out, matrixH, matrixHPower, li, hAssembled>>

\* The link-smearing overload is called, lines 320-331.
propCall(st, n, nSource, nSink, method) ==
  /\ lpc = "ready"
  /\ args' = [mass |-> 1, invSpacing |-> 2, site |-> st, nSmears |-> n,
              nSourceSmears |-> nSource, sourceSmearingParameter |-> 2,
              nSinkSmears |-> nSink, sinkSmearingParameter |-> 1,
              solverMethod |-> method]
  /\ linksAtCall' = links_
  /\ linkWrites' = 0
  /\ lpc' = "save"
  /\ UNCHANGED <<links_, propagatorColumns_, templinks, stime, D, Dadj, M,
                 eigenSolver, sourceSmearingOperator, sinkSmearingOperator,
                 propagator, pcol, smearedLinks, solves, columnWrites>>
  /\ UNCHANGED <<builderLocals, solverVars, arnoldiVars, otherVars>>

\* Lines 332-333.
propSave ==
  /\ lpc = "save"
  /\ IF SmearsLinks(args.nSmears)
       THEN templinks' = links_ /\ stime' = 0 /\ lpc' = "smear"
       ELSE lpc' = "dirac" /\ UNCHANGED <<templinks, stime>>
  /\ UNCHANGED <<links_, propagatorColumns_, args, D, Dadj, M, eigenSolver,
                 sourceSmearingOperator, sinkSmearingOperator, propagator, pcol,
                 linksAtCall, smearedLinks, linkWrites, solves, columnWrites>>
  /\ UNCHANGED <<builderLocals, solverVars, arnoldiVars, otherVars>>

\* One pass of the loop of lines 334-336.
propSmearLinks ==
  /\ lpc = "smear"
  /\ stime < temporalExtent
  /\ links_' = smearLinks(links_, stime)
  /\ linkWrites' = linkWrites + 1
  /\ stime' = stime + 1
  /\ lpc' = IF stime + 1 < temporalExtent THEN "smear" ELSE "dirac"
  /\ UNCHANGED <<propagatorColumns_, args, templinks, D, Dadj, M, eigenSolver,
                 sourceSmearingOperator, sinkSmearingOperator, propagator, pcol,
                 linksAtCall, smearedLinks, solves, columnWrites>>
  /\ UNCHANGED <<builderLocals, solverVars, arnoldiVars, otherVars>>

\* Line 339.
propDirac ==
  /\ lpc = "dirac"
  /\ D' = computeDiracMatrix(links_, propagatorColumns_, args.mass, args.invSpacing)
  /\ smearedLinks' = links_
  /\ lpc' = "restore"
  /\ UNCHANGED <<links_, propagatorColumns_, args, templinks, stime, Dadj, M,
                 eigenSolver, sourceSmearingOperator, sinkSmearingOperator,
                 propagator, pcol, linksAtCall, linkWrites, solves, columnWrites>>
  /\ UNCHANGED <<builderLocals, solverVars, arnoldiVars, otherVars>>

\* Lines 341-342.
propRestore ==
  /\ lpc = "restore"
  /\ IF RestoresLinks(args.nSmears)
       THEN /\ links_' = RestoredLinks(templinks, links_)
            /\ linkWrites' = linkWrites + 1
       ELSE UNCHANGED <<links_, linkWrites>>
  /\ lpc' = "operators"
  /\ UNCHANGED <<propagatorColumns_, args, templinks, stime, D, Dadj, M,
                 eigenSolver, sourceSmearingOperator, sinkSmearingOperator,
                 propagator, pcol, linksAtCall, smearedLinks, solves,
                 columnWrites>>
  /\ UNCHANGED <<builderLocals, solverVars, arnoldiVars, otherVars>>

\* The operator overload is entered, lines 344-346 and 220-234.
propSmearingOperators ==
  /\ lpc = "operators"
  /\ propagator' = [k \in Sites |-> [l \in 0..11 |-> [c \in 0..11 |-> CZero]]]
  /\ columnWrites' = [k \in Sites |-> [c \in 0..11 |-> 0]]
  /\ sourceSmearingOperator' =
       computeSmearingOperator(links_, propagatorColumns_,
                               args.sourceSmearingParameter, args.nSourceSmears)
  /\ sinkSmearingOperator' =
       computeSmearingOperator(links_, propagatorColumns_,
                               args.sinkSmearingParameter, args.nSinkSmears)
  /\ lpc' = "solver"
  /\ UNCHANGED <<links_, propagatorColumns_, args, templinks, stime, D, Dadj, M,
                 eigenSolver, pcol, linksAtCall, smearedLinks, linkWrites, solves>>
  /\ UNCHANGED <<builderLocals, solverVars, arnoldiVars, otherVars>>

\* Lines 237-258 and 287-289: the solver is built (the build without
\* USE_CUDA, which nothing in the sources defines).
propSolver(degree) ==
  /\ lpc = "solver"
  /\ IF UsesConjugateGradient(args.solverMethod)
       THEN LET adjoint == setFromTriplets(AdjointTriplets(D))
                product == MatMul(D, adjoint)
            IN /\ Dadj' = adjoint
               /\ M' = product
               /\ eigenSolver' = [kind |-> "ConjugateGradient",
                                  matrix |-> product, krylov |-> degree]
       ELSE /\ eigenSolver' = [kind |-> "BiCGSTAB", matrix |-> D,
                               krylov |-> degree]
            /\ UNCHANGED <<Dadj, M>>
  /\ pcol' = 0
  /\ lpc' = "solve"
  /\ UNCHANGED <<links_, propagatorColumns_, args, templinks, stime, D,
                 sourceSmearingOperator, sinkSmearingOperator, propagator,
                 linksAtCall, smearedLinks, linkWrites, solves, columnWrites>>
  /\ UNCHANGED <<builderLocals, solverVars, arnoldiVars, otherVars>>

\* One pass of the loops of lines 261-279 and 292-310.
propSolve ==
  /\ lpc = "solve"
  /\ pcol < 12
  /\ LET si == pcol \div 3
         sj == pcol % 3
         source == makeSource(args.site, si, sj, sourceSmearingOperator)
         solved == Solve(eigenSolver, source)
         solution == Solution(eigenSolver, Dadj, solved)
         smeared == MatVec(sinkSmearingOperator, solution)
         column == PropagatorColumn(si, sj)
     IN /\ propagator' = Scatter(propagator, column, smeared)
        /\ columnWrites' = [k \in Sites |-> [c \in 0..11 |->
                              IF c = column THEN columnWrites[k][c] + 1
                              ELSE columnWrites[k][c]]]
        /\ solves' = Append(solves, [spin |-> si, colour |-> sj, source |-> source,
                                     solved |-> solved, solution |-> solution,
                                     smeared |-> smeared])
  /\ pcol' = pcol + 1
  /\ UNCHANGED <<links_, propagatorColumns_, lpc, args, templinks, stime, D, Dadj,
                 M, eigenSolver, sourceSmearingOperator, sinkSmearingOperator,
                 linksAtCall, smearedLinks, linkWrites>>
  /\ UNCHANGED <<builderLocals, solverVars, arnoldiVars, otherVars>>

\* Line 314, and line 344 of the overload that called.
propReturn ==
  /\ lpc = "solve"
  /\ ~(pcol < 12)
  /\ lpc' = "done"
  /\ UNCHANGED <<links_, propagatorColumns_, args>>
  /\ UNCHANGED <<propagatorLocals, D, builderLocals, solverVars, arnoldiVars, otherVars>>

Next ==
  \/ \E st \in SiteCoordinates, n \in LinkSmears, nSource \in SmearCounts,
        nSink \in SmearCounts, method \in SolverMethods :
          propCall(st, n, nSource, nSink, method)
  \/ propSave
  \/ propSmearLinks
  \/ propDirac
  \/ propRestore
  \/ propSmearingOperators
  \/ \E degree \in KrylovDegrees : propSolver(degree)
  \/ propSolve
  \/ propReturn

Spec == PropagatorInit /\ [][Next]_vars

(* ===================== array.hpp and array_expr.hpp ==================== *)
\* Arrays of at most MaxSize elements; an element is 1 or 2 (never 0, so the
\* quotient of two elements is defined).
Elements == {1, 2}
Arrays == UNION {[1..n -> Elements] : n \in 0..MaxSize}
ArrayOps == {"+", "-", "*", "/"}
ArrayKinds == {"binary", "assign", "compound"}

\* Op::apply of Plus, Minus, Multiplies and Divides.
Apply(op, a, b) ==
  CASE op = "+" -> a + b
    [] op = "-" -> a - b
    [] op = "*" -> a * b
    [] op = "/" -> a \div b

\* pyQCDassert(expr, exception): the exception is thrown if expr is false.
pyQCDassert(expr) == IF expr THEN "passed" ELSE "thrown"

\* BinaryOperandTraits::equal_size and equal_layout of two Arrays (Arrays
\* by themselves carry no layout).
equal_size(lhs, rhs) == Len(lhs) = Len(rhs)
equal_layout(lhs, rhs) == TRUE

\* The test of line 73 of Array::operator=(const ArrayExpr&).
AssignSizesAgree(dataSize, exprSize) == dataSize = exprSize

\* Mutant of CompoundSizesAgree: a longer right-hand side is let through.
CompoundSizesAgreeLoose(otherSize, dataSize) == otherSize >= dataSize

\* The test of line 121 of Array::operator op=(const Array&).
CompoundSizesAgree(otherSize, dataSize) == otherSize = dataSize

\* The outcome of the assertions an operation starts with.
ArrayAsserts(kind, target, other) ==
  CASE kind = "binary" ->
         IF pyQCDassert(equal_size(target, other)) = "thrown" THEN "thrown"
         ELSE pyQCDassert(equal_layout(target, other))
    [] kind = "assign" -> pyQCDassert(AssignSizesAgree(Len(target), Len(other)))
    [] kind = "compound" -> pyQCDassert(CompoundSizesAgree(Len(other), Len(target)))

\* The bound of the element loop: expr.size() at line 76, data_.size() at
\* line 123.
ArrayLoopEnd(kind, target, other) ==
  IF kind = "assign" THEN Len(other) ELSE Len(target)

\* An Array object and a second operand, no operation running.
ArrayInit ==
  /\ SolverIdle /\ ArnoldiIdle /\ LatticeIdle /\ ThreadIdle
  /\ arrayCall = <<>> /\ arrayPc = "ready"
  /\ data_ \in Arrays /\ operand \in Arrays
  /\ arrayI = 0 /\ elementReads = 0 /\ elementWrites = 0
  /\ dataAtCall = data_ /\ expression = <<>>

\* operator op (binary), operator= or operator op= is called on data_ and
\* the operand.
arrayEnter(kind, op) ==
  /\ arrayPc = "ready"
  /\ arrayCall' = [kind |-> kind, op |-> op]
  /\ arrayPc' = "assert"
  /\ UNCHANGED <<data_, operand, arrayI, elementReads, elementWrites, dataAtCall,
                 expression>>
  /\ UNCHANGED <<solverVars, arnoldiVars, latticeVars, threadVars>>

\* array_expr.hpp lines 93-100, array.hpp lines 73-75 and 121-122.
arrayAssert ==
  /\ arrayPc = "assert"
  /\ IF ArrayAsserts(arrayCall.kind, data_, operand) = "thrown"
       THEN arrayPc' = "thrown" /\ UNCHANGED expression
       ELSE IF arrayCall.kind = "binary"
         THEN /\ expression' = [lhs_ |-> data_, rhs_ |-> operand, op |-> arrayCall.op]
              /\ arrayPc' = "done"
         ELSE arrayPc' = "loop" /\ UNCHANGED expression
  /\ arrayI' = 0
  /\ UNCHANGED <<arrayCall, data_, operand, elementReads, elementWrites, dataAtCall>>
  /\ UNCHANGED <<solverVars, arnoldiVars, latticeVars, threadVars>>

\* One pass of the loop of lines 76-78 or 123-125 of array.hpp.  An index
\* past the end of either vector is undefined behaviour.
arrayElement ==
  /\ arrayPc = "loop"
  /\ arrayI < ArrayLoopEnd(arrayCall.kind, data_, operand)
  /\ IF arrayI < Len(data_) /\ arrayI < Len(operand)
       THEN /\ data_' = [data_ EXCEPT ![arrayI + 1] =
                           IF arrayCall.kind = "assign" THEN operand[arrayI + 1]
                           ELSE Apply(arrayCall.op, @, operand[arrayI + 1])]
            /\ arrayPc' = "loop"
       ELSE /\ data_' \in Arrays
            /\ arrayPc' = "undefined"
  /\ elementReads' = elementReads + 1
  /\ elementWrites' = elementWrites + 1
  /\ arrayI' = arrayI + 1
  /\ UNCHANGED <<arrayCall, operand, dataAtCall, expression>>
  /\ UNCHANGED <<solverVars, arnoldiVars, latticeVars, threadVars>>

\* Lines 79 and 126: return *this.
arrayReturn ==
  /\ arrayPc = "loop"
  /\ ~(arrayI < ArrayLoopEnd(arrayCall.kind, data_, operand))
  /\ arrayPc' = "done"
  /\ UNCHANGED <<arrayCall, data_, operand, arrayI, elementReads, elementWrites,
                 dataAtCall, expression>>
  /\ UNCHANGED <<solverVars, arnoldiVars, latticeVars, threadVars>>

ArrayNext ==
  \/ \E kind \in ArrayKinds, op \in ArrayOps : arrayEnter(kind, op)
  \/ arrayAssert
  \/ arrayElement
  \/ arrayReturn

SpecArray == ArrayInit /\ [][ArrayNext]_vars

(* ============ the parallel site loops, thread by thread ================ *)
\* The team of an omp parallel for, and the two loops that have one
\* (lines 21 and 98).
Threads == 1..MaxThreads
Builders == {"dirac", "smearing"}

\* Whether the body of a site's loops reaches candidate c (counted from 0 in
\* loop order j, k, m, l, n); the model follows the first MaxCandidates
\* candidates of a site.  In the smearing loop the break of line 114 ends
\* the site at the first temporal neighbour.
HasCandidate(b, cols, s, c) ==
  /\ c < MaxCandidates
  /\ c \div 144 < 8
  /\ b = "smearing" => (c \div 144) \in SmearHandled(cols, s)

\* row, column and sum of candidate c of site s: lines 60-65 and 140-144.
Candidate(b, links, cols, invSp, s, c) ==
  LET j == c \div 144
      q == (c % 144) + 1
  IN IF b = "dirac"
       THEN Tlet(HoppingRow(s, SpinRow(q), ColourRow(q)),
                 HoppingColumn(cols[s][j][0], SpinCol(q), ColourCol(q)),
                 CMul(HoppingFactor(invSp),
                      CMul(DiracSpinMatrix(cols, s, j)[SpinRow(q)][SpinCol(q)],
                           DiracColourMatrix(links, cols, s, j)[ColourRow(q)][ColourCol(q)])))
       ELSE Tlet(12 * s + 3 * SpinRow(q) + ColourRow(q),
                 3 * cols[s][j][0] + 3 * SpinCol(q) + ColourCol(q),
                 CMul(Identity4[SpinRow(q)][SpinCol(q)],
                      SmearColourMatrix(links, cols, s, j)[ColourRow(q)][ColourCol(q)]))

\* Mutant of CriticalFree: the critical construct admits a thread whoever
\* is inside.
CriticalTaken(owner) == TRUE

\* omp critical, lines 62 and 141: a thread enters when no thread is inside
\* (both constructs are unnamed, so they share one lock).
CriticalFree(owner) == owner = 0

\* tripletList when the parallel loop starts: lines 15-18, line 95.
ListBeforeLoop(b, m, invSp) ==
  IF b = "dirac" THEN DiagonalTriplets(m, invSp) ELSE <<>>

\* The function reaches its omp parallel for, lines 21 and 98: the team
\* starts and no site has been handed out.
parallelEnter(b) ==
  /\ lpc = "ready"
  /\ builder = "none"
  /\ builder' = b
  /\ args' = [mass |-> 1, invSpacing |-> 2]
  /\ tripletList' = ListBeforeLoop(b, 1, 2)
  /\ lpc' = "parallel"
  /\ threadPc' = [t \in Threads |-> "next"]
  /\ unclaimed' = Sites
  /\ UNCHANGED <<threadSite, threadPos, threadSum, threadEnd, criticalOwner>>
  /\ UNCHANGED <<links_, propagatorColumns_, visited, D, smearingLocals,
                 propagatorLocals, solverVars, arnoldiVars, arrayVars>>

\* Thread t is handed iteration i = s of the site loop, lines 22 and 99;
\* rowLink and the matrices of lines 23-36 are its own.
threadFetch(t, s) ==
  /\ threadPc[t] = "next"
  /\ s \in unclaimed
  /\ unclaimed' = unclaimed \ {s}
  /\ threadSite' = [threadSite EXCEPT ![t] = s]
  /\ threadPos' = [threadPos EXCEPT ![t] = 0]
  /\ threadPc' = [threadPc EXCEPT ![t] = "compute"]
  /\ UNCHANGED <<builder, threadSum, threadEnd, criticalOwner>>
  /\ UNCHANGED <<latticeVars, solverVars, arnoldiVars, arrayVars>>

\* Thread t computes sum, lines 60-61 and 140, or finds its site finished.
threadCompute(t) ==
  /\ threadPc[t] = "compute"
  /\ IF HasCandidate(builder, propagatorColumns_, threadSite[t], threadPos[t])
       THEN /\ threadSum' = [threadSum EXCEPT ![t] =
                               Candidate(builder, links_, propagatorColumns_,
                                         args.invSpacing, threadSite[t], threadPos[t])]
            /\ threadPc' = [threadPc EXCEPT ![t] = "enter"]
       ELSE /\ threadPc' = [threadPc EXCEPT ![t] = "next"]
            /\ UNCHANGED threadSum
  /\ UNCHANGED <<builder, threadSite, threadPos, threadEnd, criticalOwner, unclaimed>>
  /\ UNCHANGED <<latticeVars, solverVars, arnoldiVars, arrayVars>>

\* Thread t enters the critical construct, lines 62 and 141.
threadEnter(t) ==
  /\ threadPc[t] = "enter"
  /\ CriticalFree(criticalOwner)
  /\ criticalOwner' = t
  /\ threadPc' = [threadPc EXCEPT ![t] = "test"]
  /\ UNCHANGED <<builder, threadSite, threadPos, threadSum, threadEnd, unclaimed>>
  /\ UNCHANGED <<latticeVars, solverVars, arnoldiVars, arrayVars>>

\* Inside the construct: the test of lines 63 and 142; a zero sum leaves the
\* construct at once, otherwise push_back reads the end of the vector.
threadTest(t) ==
  /\ threadPc[t] = "test"
  /\ IF threadSum[t].val # CZero
       THEN /\ threadEnd' = [threadEnd EXCEPT ![t] = Len(tripletList)]
            /\ threadPc' = [threadPc EXCEPT ![t] = "append"]
            /\ UNCHANGED <<threadPos, criticalOwner>>
       ELSE /\ criticalOwner' = IF criticalOwner = t THEN 0 ELSE criticalOwner
            /\ threadPos' = [threadPos EXCEPT ![t] = @ + 1]
            /\ threadPc' = [threadPc EXCEPT ![t] = "compute"]
            /\ UNCHANGED threadEnd
  /\ UNCHANGED <<builder, threadSite, threadSum, unclaimed>>
  /\ UNCHANGED <<latticeVars, solverVars, arnoldiVars, arrayVars>>

\* push_back of lines 64-65 and 143-144 writes the element at the end it
\* read and the construct is left.  Had another thread moved the end in
\* between, the write is a data race: the element lands behind the others
\* or on top of one of them.
threadAppend(t) ==
  /\ threadPc[t] = "append"
  /\ IF threadEnd[t] = Len(tripletList)
       THEN tripletList' = Append(tripletList, threadSum[t])
       ELSE tripletList' \in {Append(tripletList, threadSum[t]),
                              [tripletList EXCEPT ![threadEnd[t] + 1] = threadSum[t]]}
  /\ criticalOwner' = IF criticalOwner = t THEN 0 ELSE criticalOwner
  /\ threadPos' = [threadPos EXCEPT ![t] = @ + 1]
  /\ threadPc' = [threadPc EXCEPT ![t] = "compute"]
  /\ UNCHANGED <<builder, threadSite, threadSum, threadEnd, unclaimed>>
  /\ UNCHANGED <<links_, propagatorColumns_, lpc, args, visited, D, smearingLocals,
                 propagatorLocals, solverVars, arnoldiVars, arrayVars>>

\* No iteration is left for thread t: it waits at the barrier that ends the
\* loop, lines 71 and 150.
threadJoin(t) ==
  /\ threadPc[t] = "next"
  /\ unclaimed = {}
  /\ threadPc' = [threadPc EXCEPT ![t] = "joined"]
  /\ UNCHANGED <<builder, threadSite, threadPos, threadSum, threadEnd,
                 criticalOwner, unclaimed>>
  /\ UNCHANGED <<latticeVars, solverVars, arnoldiVars, arrayVars>>

ParallelNext ==
  \/ \E b \in Builders : parallelEnter(b)
  \/ \E t \in Threads, s \in Sites : threadFetch(t, s)
  \/ \E t \in Threads : threadCompute(t)
  \/ \E t \in Threads : threadEnter(t)
  \/ \E t \in Threads : threadTest(t)
  \/ \E t \in Threads : threadAppend(t)
  \/ \E t \in Threads : threadJoin(t)

SpecParallel == LatticeInit /\ [][ParallelNext]_vars

(* ======================= claims on the solvers ========================= *)

\* The iteration counts a call with budget m can report when it converges
\* (1..m) or exhausts the budget (m).
ReportableCounts(m) == (1..m) \cup {m}

\* C2: when bicgstab stops on rho = 0, the count it writes to maxIterations
\* is a sentinel (negative) that differs from every count the same call could
\* report on convergence or on budget exhaustion.
C2_BreakdownSentinel ==
  (solver = "bicgstab" /\ spc = "done" /\ outcome = "breakdown")
    => /\ maxIterations < 0
       /\ maxIterations \notin ReportableCounts(M0)

\* C3: on return, by convergence or by budget exhaustion, tolerance holds the
\* norm (relative to r0 for bicgstab and gmres, absolute for cg) of the
\* vector r as its last update left it (stated for a finite r).
C3_ToleranceIsFinalResidual ==
  (spc = "done" /\ outcome \in {"converged", "exhausted"} /\ rSq # NaN)
    => tolerance = IF solver = "cg" THEN Ratio(rSq, 1) ELSE Ratio(rSq, r0Norm)

\* C4: without breakdown the loop body runs at most M0 times, every state
\* short of the return has a step to take, and on return maxIterations is the
\* number of passes made: i + 1 on convergence at index i, M0 on exhaustion.
C4_IterationBudget ==
  /\ iters <= M0
  /\ spc # "done" => ENABLED SolverNext
  /\ (spc = "done" /\ outcome # "breakdown")
       => /\ maxIterations = iters
          /\ outcome = "converged" => maxIterations = i + 1
          /\ outcome = "exhausted" => maxIterations = M0 /\ iters = M0

\* C4 witness: a call with the largest budget that converged in its second
\* pass and returned.
C4_Witness ==
  /\ spc = "done" /\ outcome = "converged"
  /\ M0 = MaxIter /\ maxIterations = 2 /\ iters = 2

\* C16: in cg, with N = rhs.size() / 2, the even half of solution is
\* assigned once, before the loop, applyEvenEvenInv of the first N entries
\* of makeEvenOddSource(rhs), and no pass of the loop assigns to solution;
\* r, p and oddSolution have N entries; a pass of the loop applies
\* applyPreconditionedHermitian once and no other operator; after the loop
\* oddSolution is copied into the last N entries, and what is returned is
\* makeEvenOddSolution of the vector so combined.
C16_CgFrame ==
  (solver = "cg" /\ spc \in {"loop", "break", "done"})
    => LET N == rhsSize \div 2
           setup == <<"makeEvenOddSource", "makeHermitian", "applyEvenEvenInv",
                      "applyPreconditionedHermitian">>
           evenHalf == <<"applyEvenEvenInv", "head", "makeEvenOddSource", "rhs">>
       IN /\ cgSolution.head = evenHalf /\ cgSolution.headLen = N
          /\ cgLengths.r = N /\ cgLengths.p = N /\ cgLengths.oddSolution = N
          /\ \A w \in DOMAIN cgWrites : cgWrites[w].at # "loop"
          /\ spc # "done"
               => /\ cgWrites = <<[part |-> "head", at |-> "setup"]>>
                  /\ ops = setup \o Repeat("applyPreconditionedHermitian", iters)
          /\ spc = "done"
               => /\ cgWrites = <<[part |-> "head", at |-> "setup"],
                                  [part |-> "tail", at |-> "after"]>>
                  /\ ops = setup \o Repeat("applyPreconditionedHermitian", iters)
                             \o <<"makeEvenOddSolution">>
                  /\ cgSolution.tail = <<"oddSolution">> /\ cgSolution.tailLen = N
                  /\ cgResult = [fn |-> "makeEvenOddSolution", arg |-> cgSolution]

\* C16 witness: cg returned after at least two passes of its loop for a
\* right-hand side of odd size (N = 1, one entry between the two halves).
C16_Witness ==
  /\ solver = "cg" /\ spc = "done" /\ iters >= 2
  /\ rhsSize = 3 /\ cgLengths.r = 1
  /\ Len(cgWrites) = 2

\* C18: when cg, bicgstab or gmres returns from a call with maxIterations
\* >= 1 in which no breakdown occurred, the tolerance written back is
\* strictly smaller than the tolerance passed in exactly if the loop was
\* left through the convergence break; so a returned maxIterations smaller
\* than the one passed in comes with a tolerance below the requested one,
\* and a run that used up its iterations returns one that is not below it.
C18_ToleranceTellsConvergence ==
  (spc = "done" /\ M0 >= 1 /\ outcome # "breakdown")
    => /\ RatioLt(tolerance, tol0) <=> outcome = "converged"
       /\ maxIterations < M0 => RatioLt(tolerance, tol0)
       /\ outcome = "exhausted" => ~RatioLt(tolerance, tol0)

\* C18 witness: bicgstab converged in the last pass it was allowed, after
\* at least two passes: maxIterations comes back as passed in and the
\* tolerance smaller than requested.
C18_Witness ==
  /\ solver = "bicgstab" /\ spc = "done" /\ outcome = "converged"
  /\ M0 >= 2 /\ maxIterations = M0 /\ iters = M0
  /\ RatioLt(tolerance, tol0)

(* ========================= claims on arnoldi =========================== *)

\* C5: once a step finds the orthogonalised q to have norm zero, arnoldi
\* stops there: the operator is applied no more, no column of V is the
\* result of dividing by that zero, and what is returned holds no NaN.
C5_ZeroNormStops ==
  zeroAt # 0
    => /\ Len(applied) <= zeroAt
       /\ \A c \in DOMAIN V : V[c] # "nan"
       /\ \A r \in DOMAIN H : \A c \in DOMAIN H[r] : H[r][c] # NaN

\* C17: when arnoldi returns for numIterations = n >= 1 and no norm was
\* zero, V has rhs.size() rows and n + 1 columns and H has n + 1 rows and n
\* columns; column c of H was assigned to in rows 0..c+1 only and is zero
\* below them (upper Hessenberg); every H(c+1, c) is a norm, a real number
\* that is not negative; and the operator was applied exactly n times, the
\* i-th time to column i - 1 of V.
C17_ArnoldiShape ==
  (apc = "done" /\ numIterations >= 1 /\ zeroAt = 0 /\ V[0] = "unit")
    => /\ shape.Vrows = shape.rhs /\ shape.Vcols = numIterations + 1
       /\ shape.Hrows = numIterations + 1 /\ shape.Hcols = numIterations
       /\ DOMAIN V = 0..numIterations
       /\ DOMAIN H = 0..numIterations
       /\ \A r \in DOMAIN H : DOMAIN H[r] = 0..(numIterations - 1)
       /\ written = {<<r, c>> \in (0..numIterations) \X (0..(numIterations - 1)) :
                       r <= c + 1}
       /\ \A r \in 0..numIterations : \A c \in 0..(numIterations - 1) :
            r > c + 1 => H[r][c] = 0
       /\ \A c \in 0..(numIterations - 1) : H[c + 1][c] \in Norms \ {0}
       /\ applied = [n \in 1..numIterations |-> n - 1]
       /\ \A c \in 0..numIterations : V[c] = "unit"

\* C17 witness: arnoldi returned for the largest numIterations with no zero
\* norm, H having an entry of the upper triangle that is not zero.
C17_Witness ==
  /\ apc = "done" /\ numIterations = MaxArnoldi /\ zeroAt = 0 /\ V[0] = "unit"
  /\ shape.rhs = MaxRhs
  /\ H[0][numIterations - 1] = 1
  /\ Len(applied) = numIterations

(* ======================= claims on the lattice ========================= *)

\* The flat index of the site at coordinates st = (t, x, y, z).
SiteIndex(st) ==
  st[3] + spatialExtent * (st[2] + spatialExtent * (st[1] + spatialExtent * st[0]))

\* The flat index of the neighbour of site s one step in direction code
\* (0..3 backward, 4..7 forward), from the coordinates alone.
NeighbourSite(s, code) ==
  LET t == s \div (spatialExtent * spatialExtent * spatialExtent)
      x == (s \div (spatialExtent * spatialExtent)) % spatialExtent
      y == (s \div spatialExtent) % spatialExtent
      z == s % spatialExtent
      step == IF code > 3 THEN 1 ELSE -1
      moved(d, at, ext) == IF code % 4 = d THEN (at + step) % ext ELSE at
  IN SiteIndex(<<0, moved(1, x, spatialExtent), moved(2, y, spatialExtent),
                 moved(3, z, spatialExtent)>>
               @@ (0 :> moved(0, t, temporalExtent)))

\* The places (row, column) the claim gives the hopping entries of site s,
\* in the order of the loops over the neighbours and over k, m, l, n.
HoppingPlaces(s) ==
  Concat([j \in 0..7 |->
            LET code == propagatorColumns_[s][j][1]
                spin == DiracSpinMatrix(propagatorColumns_, s, j)
                colour == DiracColourMatrix(links_, propagatorColumns_, s, j)
                place(q) ==
                  [row |-> 12 * s + 3 * SpinRow(q) + ColourRow(q),
                   col |-> 12 * NeighbourSite(s, code) + 3 * SpinCol(q) + ColourCol(q),
                   zero |-> CMul(spin[SpinRow(q)][SpinCol(q)],
                                 colour[ColourRow(q)][ColourCol(q)]) = CZero]
            IN SelectSeq([q \in 1..144 |-> place(q)], LAMBDA e : ~e.zero)],
         7)

\* C10: every entry computeDiracMatrix produces has its row and its column
\* in [0, 12*nSites); the entries of the diagonal loop lie on the diagonal
\* and give every index exactly one entry; and the hopping entries of a site
\* s lie at row 12*s + 3*k + m and column 12*s' + 3*l + n, s' the neighbour.
C10_DiracIndices ==
  /\ \A n \in DOMAIN tripletList :
       /\ tripletList[n].row \in 0..(12 * nSites - 1)
       /\ tripletList[n].col \in 0..(12 * nSites - 1)
  /\ lpc \in {"sites", "diracDone"}
       => /\ \A n \in 1..(12 * nSites) : tripletList[n].row = tripletList[n].col
          /\ \A x \in 0..(12 * nSites - 1) :
               Cardinality({n \in 1..(12 * nSites) : tripletList[n].row = x}) = 1
  /\ \A v \in DOMAIN visited :
       LET places == HoppingPlaces(visited[v].site)
           from == visited[v].first
       IN /\ visited[v].last - from + 1 = Len(places)
          /\ \A n \in 1..Len(places) :
               /\ tripletList[from + n - 1].row = places[n].row
               /\ tripletList[from + n - 1].col = places[n].col

\* C10 witness: the matrix of a lattice with twisted links was returned, all
\* sites handled, and it has a hopping entry from site 0 to the other site.
C10_Witness ==
  /\ lpc = "diracDone" /\ links_ = MixedField /\ Len(visited) = nSites
  /\ \E n \in DOMAIN tripletList :
       /\ n > 12 * nSites
       /\ tripletList[n].row \div 12 = 0
       /\ tripletList[n].col \div 12 = 1

RECURSIVE HornerSum(_, _, _)
\* 1 + a H (1 + a H (1 + ...)), n factors a H: the sum of a^i H^i, i = 0..n.
HornerSum(Hm, a, n) ==
  IF n = 0 THEN IdentityMatrix
  ELSE MatAdd(IdentityMatrix,
              MatScale(CReal(a), MatMul(Hm, HornerSum(Hm, a, n - 1))))

\* C6: computeSmearingOperator returns the sum over i = 0..n of a^i H^i,
\* n + 1 terms; for n = 0 that is exactly the identity, whatever the gauge
\* field, and H has not been assembled.
C6_SmearingSeries ==
  lpc = "smearDone"
    => /\ out = HornerSum(matrixH, args.smearingParameter, args.nSmears)
       /\ li = args.nSmears + 1
       /\ out = computeSmearingOperator(links_, propagatorColumns_,
                                        args.smearingParameter, args.nSmears)
       /\ args.nSmears = 0
            => /\ out = IdentityMatrix
               /\ ~hAssembled
               /\ matrixH = ZeroMatrix

\* C6 witness: a call with the largest nSmears and parameter 2 returned, H
\* assembled and not zero, the result not the identity.
C6_Witness ==
  /\ lpc = "smearDone"
  /\ args.nSmears = MaxSmears /\ args.smearingParameter = 2
  /\ hAssembled /\ matrixH # ZeroMatrix /\ out # IdentityMatrix

\* C1: when the link-smearing overload of computePropagator returns, links_
\* is, link by link, what it was when the overload was called; with
\* nSmears > 0 it was overwritten in between, and with nSmears <= 0 it is
\* never written.
C1_LinksRestored ==
  /\ lpc = "done" => links_ = linksAtCall
  /\ (lpc = "done" /\ args.nSmears > 0)
       => smearedLinks # linksAtCall /\ linkWrites > 0
  /\ (lpc \notin {"idle", "ready"} /\ args.nSmears <= 0)
       => linkWrites = 0 /\ links_ = linksAtCall

\* C1 witness: a call with nSmears > 0 returned; every time slice was
\* smeared, D was computed from links that differ from those at the call.
C1_Witness ==
  /\ lpc = "done" /\ args.nSmears > 0
  /\ linkWrites = temporalExtent + 1
  /\ smearedLinks # linksAtCall
  /\ links_ = linksAtCall

\* C7: computePropagator returns only after all 12 solves, on either
\* branch; propagator[k](l, j + 3*i) is entry 12*k + l of the sink-smeared
\* solution of source (i, j), and every column of every site matrix has
\* been written exactly once.
C7_PropagatorComplete ==
  /\ lpc = "solve" => Len(solves) = pcol
  /\ lpc = "done"
       => /\ Len(solves) = 12
          /\ \A k \in Sites : \A c \in 0..11 : columnWrites[k][c] = 1
          /\ \A si \in 0..3 : \A sj \in 0..2 :
               LET rec == solves[3 * si + sj + 1]
               IN /\ rec.spin = si /\ rec.colour = sj
                  /\ rec.solved = Solve(eigenSolver, rec.source)
                  /\ rec.smeared = MatVec(sinkSmearingOperator, rec.solution)
                  /\ \A k \in Sites : \A l \in 0..11 :
                       propagator[k][l][sj + 3 * si] = rec.smeared[12 * k + l]

\* C7 witness: a call on the CG branch with a smeared sink returned a
\* propagator that is not zero.
C7_Witness ==
  /\ lpc = "done"
  /\ eigenSolver.kind = "ConjugateGradient" /\ eigenSolver.krylov = 1
  /\ args.nSinkSmears > 0
  /\ \E k \in Sites : \E l \in 0..11 : \E c \in 0..11 : propagator[k][l][c] # CZero

\* The adjoint of a matrix, entry by entry.
AdjointOf(Dm) == Stored([r \in Idx |-> [c \in Idx |-> CConj(Dm[c][r])]])

\* C8: solverMethod = 1 takes the CG path on D * D^dagger, each solution
\* being D^dagger times what the solver returned; every other solverMethod
\* takes the BiCGSTAB path on D, each solution being what the solver
\* returned; whatever the value, the solver is built and the 12 solves made.
C8_SolverSelection ==
  /\ (lpc = "solve" /\ pcol = 0)
       => IF args.solverMethod = 1
            THEN /\ eigenSolver.kind = "ConjugateGradient"
                 /\ eigenSolver.matrix = MatMul(D, AdjointOf(D))
                 /\ Dadj = AdjointOf(D)
            ELSE /\ eigenSolver.kind = "BiCGSTAB"
                 /\ eigenSolver.matrix = D
  /\ lpc = "done"
       => /\ Len(solves) = 12
          /\ eigenSolver.kind
               = IF args.solverMethod = 1 THEN "ConjugateGradient" ELSE "BiCGSTAB"
          /\ \A n \in 1..12 :
               /\ solves[n].solved = Solve(eigenSolver, solves[n].source)
               /\ solves[n].solution
                    = IF args.solverMethod = 1
                        THEN MatVec(AdjointOf(D), solves[n].solved)
                        ELSE solves[n].solved

\* C8 witness: a call with the out-of-range solverMethod 2 returned, its
\* solves made by BiCGSTAB.
C8_Witness ==
  /\ lpc = "done" /\ args.solverMethod = 2
  /\ eigenSolver.kind = "BiCGSTAB" /\ eigenSolver.krylov = 1
  /\ Len(solves) = 12

\* The bare point source of a site, spin si and colour sj.
PointSource(st, si, sj) ==
  [r \in 0..(12 * nSites - 1) |->
     IF r = 12 * SiteIndex(st) + 3 * si + sj THEN COne ELSE CZero]

\* C9: with nSourceSmears = 0 and nSinkSmears = 0 the vector handed to the
\* solver for spin i and colour j is the bare point source, 1 at index
\* 12*site + 3*i + j, and the column stored is the solution unchanged: what
\* solving against the bare point source gives.
C9_BarePointSource ==
  (lpc = "done" /\ args.nSourceSmears = 0 /\ args.nSinkSmears = 0)
    => \A si \in 0..3 : \A sj \in 0..2 :
         LET rec == solves[3 * si + sj + 1]
             point == PointSource(args.site, si, sj)
         IN /\ rec.source = point
            /\ rec.solved = Solve(eigenSolver, point)
            /\ rec.solution = Solution(eigenSolver, Dadj, Solve(eigenSolver, point))
            /\ \A k \in Sites : \A l \in 0..11 :
                 propagator[k][l][sj + 3 * si] = rec.solution[12 * k + l]

\* C9 witness: a call without source or sink smearing, for the last site,
\* returned.
C9_Witness ==
  /\ lpc = "done" /\ args.nSourceSmears = 0 /\ args.nSinkSmears = 0
  /\ SiteIndex(args.site) = nSites - 1
  /\ args.solverMethod = 0 /\ eigenSolver.krylov = 1

(* ========================= claims on the arrays ======================== *)

\* C11: an operation on two Arrays of different size (constructing a binary
\* expression, assigning an expression, compound assignment) raises the size
\* error at once: no element has been read or written, the target is as it
\* was at the call, no expression object exists, and the operation never
\* reaches its element loop or its return; with equal sizes nothing is raised.
C11_SizeMismatchRaises ==
  /\ (arrayPc \notin {"idle", "ready", "assert"} /\ Len(dataAtCall) # Len(operand))
       => /\ arrayPc = "thrown"
          /\ elementReads = 0 /\ elementWrites = 0
          /\ data_ = dataAtCall
          /\ expression = <<>>
  /\ arrayPc = "thrown" => Len(dataAtCall) # Len(operand)

\* C11 witness: a compound assignment to an Array of MaxSize elements with a
\* shorter Array has raised.
C11_Witness ==
  /\ arrayPc = "thrown" /\ arrayCall.kind = "compound"
  /\ Len(data_) = MaxSize /\ Len(operand) < MaxSize /\ Len(operand) > 0

\* C12: in the link-smearing overload called with nSmears > 0 the saved
\* links are put back only after the smearing operators were built and the
\* 12 solves were done: while the operators are built and the systems are
\* solved links_ is still the smeared field D was computed from, and the
\* source and sink smearing operators are those of that smeared field.
C12_RestoreAfterSolves ==
  /\ (lpc \in {"operators", "solver", "solve"} /\ args.nSmears > 0)
       => /\ links_ = smearedLinks
          /\ linkWrites = temporalExtent
  /\ (lpc \in {"solver", "solve", "done"} /\ args.nSmears > 0)
       => /\ sourceSmearingOperator =
               computeSmearingOperator(smearedLinks, propagatorColumns_,
                                       args.sourceSmearingParameter,
                                       args.nSourceSmears)
          /\ sinkSmearingOperator =
               computeSmearingOperator(smearedLinks, propagatorColumns_,
                                       args.sinkSmearingParameter,
                                       args.nSinkSmears)

\* C13: for nSmears > 0 and every site, the neighbours whose triplets go
\* into H are the 6 spatial ones (codes 1, 2, 3, 5, 6, 7) and neither of the
\* temporal ones (codes 0 and 4), in whatever order the table lists the 8
\* neighbours; H is then the H of the table that lists the spatial
\* neighbours first.
C13_SpatialNeighbours ==
  (lpc \in {"sum", "smearDone"} /\ args.nSmears > 0)
    => /\ \A s \in Sites :
            SmearHandled(propagatorColumns_, s)
              = {j \in 0..7 : propagatorColumns_[s][j][1] \notin {0, 4}}
       /\ matrixH = SmearMatrixH(links_, NeighbourTable(SpatialFirst),
                                 args.nSmears)

\* The values the claim gives the entries of neighbour j of site s, in loop
\* order: the colour matrix is the link (s, d) for the forward neighbour
\* (code d + 4) and the adjoint of the link in direction d of the site one
\* step back for the backward neighbour (code d); the spin matrix is
\* I + gamma_d or I - gamma_d; the value is -(1 / (2 * spacing)) times the
\* product of their entries, kept if it is not zero.
HoppingValues(s, j) ==
  LET code == propagatorColumns_[s][j][1]
      d == code % 4
      colour == IF code > 3 THEN links_[4 * s + d]
                ELSE Adjoint3(links_[4 * NeighbourSite(s, code) + d])
      spin == IF code > 3 THEN Add4(Identity4, gammas[d])
              ELSE Sub4(Identity4, gammas[d])
      value(q) == CMul(C(-(args.invSpacing \div 2), 0),
                       CMul(spin[SpinRow(q)][SpinCol(q)],
                            colour[ColourRow(q)][ColourCol(q)]))
  IN SelectSeq([q \in 1..144 |-> value(q)], LAMBDA x : x # CZero)

SequentialList(b, links, cols, m, invSp) ==
  LET kept(s) ==
        SelectSeq([c \in 1..MaxCandidates |->
                     IF HasCandidate(b, cols, s, c - 1)
                       THEN Candidate(b, links, cols, invSp, s, c - 1)
                       ELSE Tlet(0, 0, CZero)],
                  LAMBDA e : e.val # CZero)
  IN ListBeforeLoop(b, m, invSp) \o Concat([s \in Sites |-> kept(s)], nSites - 1)

\* How often e occurs in a list, and whether two lists hold the same
\* elements the same number of times.
Occurrences(list, e) == Cardinality({n \in DOMAIN list : list[n] = e})
SameMultiset(a, b) ==
  /\ Len(a) = Len(b)
  /\ \A n \in DOMAIN a : Occurrences(a, a[n]) = Occurrences(b, a[n])

\* C14: under every interleaving of the threads of a parallel site loop at
\* most one thread is inside the test-and-append on tripletList and nothing
\* moves the end of the list under a push_back; what a thread holds (its
\* site, its row, column and sum) is its own, no two threads work on one
\* site; and when all threads have joined tripletList holds the same
\* multiset of entries as a run on one thread.
C14_ParallelAssembly ==
  /\ Cardinality({t \in Threads : threadPc[t] \in {"test", "append"}}) <= 1
  /\ \A t \in Threads :
       /\ threadPc[t] \in {"test", "append"} => criticalOwner = t
       /\ threadPc[t] = "append" => threadEnd[t] = Len(tripletList)
       /\ threadPc[t] \in {"enter", "test", "append"}
            => threadSum[t] = Candidate(builder, links_, propagatorColumns_,
                                        args.invSpacing, threadSite[t], threadPos[t])
       /\ \A u \in Threads :
            (/\ u # t
             /\ threadPc[t] \in {"compute", "enter", "test", "append"}
             /\ threadPc[u] \in {"compute", "enter", "test", "append"})
              => threadSite[t] # threadSite[u]
  /\ (\A t \in Threads : threadPc[t] = "joined")
       => SameMultiset(tripletList,
                       SequentialList(builder, links_, propagatorColumns_,
                                      args.mass, args.invSpacing))

\* C14 witness: the Dirac loop has ended with the sites shared between two
\* threads, entries were appended, and they stand in another order than a
\* run on one thread leaves them in.
C14_Witness ==
  /\ builder = "dirac"
  /\ \A t \in Threads : threadPc[t] = "joined"
  /\ \E t, u \in Threads : threadSite[t] >= 0 /\ threadSite[u] >= 0
                           /\ threadSite[t] # threadSite[u]
  /\ Len(tripletList) > Len(ListBeforeLoop(builder, args.mass, args.invSpacing))
  /\ tripletList # SequentialList(builder, links_, propagatorColumns_,
                                  args.mass, args.invSpacing)

====
